---- MODULE Spec2Model ----
(***************************************************************************)
(* State-machine model of the UrlShortener class of src/index.ts.          *)
(*                                                                         *)
(* Short codes are sequences of one-character strings, so that their       *)
(* length, their alphabet and their JavaScript property-key class (array   *)
(* index or plain string) are computed and not assumed.  A Date is its     *)
(* millisecond value; its JSON form is the record [iso |-> ms].  An        *)
(* optional value (customCode?, lastAccessed?) is << >> when it is absent  *)
(* and <<v>> when it is present.                                           *)
(***************************************************************************)
EXTENDS Integers, Sequences, FiniteSets, TLC

\* ---- bounds of the model ------------------------------------------------
MaxCounter == 2
MaxClicks == 1
\* deepest generateShortCode recursion followed
MaxDepth == 101
\* most records of a registry whose statistics are computed
MaxRecords == 6

\* ---- sampled inputs -----------------------------------------------------
ValidUrls == {"https://example.com", "https://www.google.com"}
InvalidUrls == {"not-a-url"}
UrlInputs == ValidUrls \cup InvalidUrls

c123456 == <<"1", "2", "3", "4", "5", "6">>
cAaaaaa == <<"a", "a", "a", "a", "a", "a">>
cConstructor == <<"c", "o", "n", "s", "t", "r", "u", "c", "t", "o", "r">>
cToString == <<"t", "o", "S", "t", "r", "i", "n", "g">>
cProto == <<"_", "_", "p", "r", "o", "t", "o", "_", "_">>
cEmpty == << >>

\* strings a caller passes as customCode / shortCode
CodeInputs == {cEmpty, cAaaaaa, c123456, cProto}
\* customCode?: absent, or one of the strings
CustomCodeArgs == {<< >>} \cup {<<c>> : c \in CodeInputs}
\* values new Date() returns (milliseconds); the wall clock is an input of
\* every call
Times == {0, 1}
\* outcomes of crypto.randomInt(0, 62) for the six characters of one draw
DrawSamples == {<<0, 0, 0, 0, 0, 0>>, <<53, 54, 55, 56, 57, 58>>}

\* ---- JavaScript object semantics of storage.urls ------------------------
Digits == {"0", "1", "2", "3", "4", "5", "6", "7", "8", "9"}

DigitVal(ch) ==
  CASE ch = "0" -> 0 [] ch = "1" -> 1 [] ch = "2" -> 2 [] ch = "3" -> 3
    [] ch = "4" -> 4 [] ch = "5" -> 5 [] ch = "6" -> 6 [] ch = "7" -> 7
    [] ch = "8" -> 8 [] ch = "9" -> 9

\* order of two digit strings without leading zeros, as numbers
RECURSIVE DigitsLess(_, _)
DigitsLess(a, b) ==
  IF Len(a) # Len(b) THEN Len(a) < Len(b)
  ELSE IF a = << >> THEN FALSE
  ELSE IF Head(a) # Head(b) THEN DigitVal(Head(a)) < DigitVal(Head(b))
  ELSE DigitsLess(Tail(a), Tail(b))

\* 2^32 - 1, the first integer that is not an array index
IndexLimit == <<"4", "2", "9", "4", "9", "6", "7", "2", "9", "5">>

\* a property key that is a canonical array index is enumerated first, in
\* ascending numeric order; every other key follows in insertion order
IsArrayIndex(code) ==
  /\ Len(code) >= 1
  /\ \A i \in 1..Len(code) : code[i] \in Digits
  /\ (code[1] # "0" \/ Len(code) = 1)
  /\ DigitsLess(code, IndexLimit)

\* names every plain object inherits from Object.prototype
ObjectPrototypeNames == {cConstructor, cToString, cProto}

Keys(u) == {u[i].shortCode : i \in 1..Len(u)}

IndexOfKey(u, code) == CHOOSE i \in 1..Len(u) : u[i].shortCode = code

\* Object.values(storage.urls): the own records, in property order
ObjectValues(u) == u

\* storage.urls[shortCode]: the own record, else an inherited built-in,
\* else undefined
Lookup(u, code) ==
  IF code \in Keys(u) THEN [kind |-> "record", rec |-> u[IndexOfKey(u, code)]]
  ELSE IF code \in ObjectPrototypeNames THEN [kind |-> "builtin", rec |-> code]
  ELSE [kind |-> "undefined", rec |-> code]

Truthy(v) == v.kind # "undefined"

InsertAt(u, i, r) == SubSeq(u, 1, i - 1) \o <<r>> \o SubSeq(u, i, Len(u))

\* storage.urls[shortCode] = record
SetKey(u, r) ==
  IF r.shortCode \in Keys(u)
  THEN [u EXCEPT ![IndexOfKey(u, r.shortCode)] = r]
  ELSE IF IsArrayIndex(r.shortCode)
  THEN LET before == {i \in 1..Len(u) :
                        /\ IsArrayIndex(u[i].shortCode)
                        /\ DigitsLess(u[i].shortCode, r.shortCode)}
       IN InsertAt(u, Cardinality(before) + 1, r)
  ELSE Append(u, r)

\* variant: the first enumerated record is removed, whatever its key
DeleteKey_First(u, code) == IF u = << >> THEN u ELSE Tail(u)

\* delete storage.urls[shortCode]
DeleteKey(u, code) ==
  IF code \in Keys(u)
  THEN LET i == IndexOfKey(u, code)
       IN SubSeq(u, 1, i - 1) \o SubSeq(u, i + 1, Len(u))
  ELSE u

\* ---- pure helpers of the class -----------------------------------------
\* variant: the validity check is skipped
isValidUrl_Always(url) == TRUE

\* new URL(url) succeeds: outcome of the URL parser on the sampled strings
isValidUrl(url) == url \in ValidUrls

chars ==
  <<"a", "b", "c", "d", "e", "f", "g", "h", "i", "j", "k", "l", "m",
    "n", "o", "p", "q", "r", "s", "t", "u", "v", "w", "x", "y", "z",
    "A", "B", "C", "D", "E", "F", "G", "H", "I", "J", "K", "L", "M",
    "N", "O", "P", "Q", "R", "S", "T", "U", "V", "W", "X", "Y", "Z",
    "0", "1", "2", "3", "4", "5", "6", "7", "8", "9">>

\* the six-character string one pass of the for loop builds from a draw
DrawnCode(draw) == [i \in 1..6 |-> chars[draw[i] + 1]]

\* variant: the drawn string is returned without the look-up and the retry
generateShortCode_NoRetry(u) == {DrawnCode(d) : d \in DrawSamples}

\* results generateShortCode can return: the first draw of a run of draws
\* whose string is not (own or inherited) in storage.urls
generateShortCode(u) ==
  {DrawnCode(d) : d \in {x \in DrawSamples : ~Truthy(Lookup(u, DrawnCode(x)))}}

\* JSON.stringify(this.storage, null, 2)
SerializeUrl(r) ==
  [id |-> r.id, originalUrl |-> r.originalUrl, shortCode |-> r.shortCode,
   createdAt |-> [iso |-> r.createdAt], clickCount |-> r.clickCount,
   lastAccessed |-> IF r.lastAccessed = << >> THEN << >>
                    ELSE <<[iso |-> r.lastAccessed[1]]>>]

Serialize(u, c) ==
  [state |-> "ok", urls |-> [i \in 1..Len(u) |-> SerializeUrl(u[i])],
   counter |-> c]

NoFile == [state |-> "missing", urls |-> << >>, counter |-> 0]
BadFile == [state |-> "corrupt", urls |-> << >>, counter |-> 0]
UnreadableFile == [state |-> "unreadable", urls |-> << >>, counter |-> 0]

\* variant: lastAccessed is not carried over
ReviveUrl_NoLastAccessed(j) ==
  [id |-> j.id, originalUrl |-> j.originalUrl, shortCode |-> j.shortCode,
   createdAt |-> j.createdAt.iso, clickCount |-> j.clickCount,
   lastAccessed |-> << >>]

\* the forEach of loadStorage that revives the Date fields
ReviveUrl(j) ==
  [id |-> j.id, originalUrl |-> j.originalUrl, shortCode |-> j.shortCode,
   createdAt |-> j.createdAt.iso, clickCount |-> j.clickCount,
   lastAccessed |-> IF j.lastAccessed # << >> THEN <<j.lastAccessed[1].iso>>
                    ELSE << >>]

\* variant: the fallback registry starts with counter 1
loadStorage_CounterOne(d) ==
  IF d.state = "ok"
  THEN [urls |-> [i \in 1..Len(d.urls) |-> ReviveUrl(d.urls[i])],
        counter |-> d.counter]
  ELSE [urls |-> << >>, counter |-> 1]

loadStorage(d) ==
  IF d.state = "ok"
  THEN [urls |-> [i \in 1..Len(d.urls) |-> ReviveUrl(d.urls[i])],
        counter |-> d.counter]
  ELSE [urls |-> << >>, counter |-> 0]

\* variant: the comparator is a.clickCount - b.clickCount
RECURSIVE SortByClicks_Ascending(_)
SortByClicks_Ascending(s) ==
  IF s = << >> THEN << >>
  ELSE LET rest == SortByClicks_Ascending(SubSeq(s, 1, Len(s) - 1))
           x == s[Len(s)]
           keep == {i \in 1..Len(rest) : rest[i].clickCount <= x.clickCount}
       IN InsertAt(rest, Cardinality(keep) + 1, x)

\* comparator-driven stable sort of getStats: clickCount descending
RECURSIVE SortByClicks(_)
SortByClicks(s) ==
  IF s = << >> THEN << >>
  ELSE LET rest == SortByClicks(SubSeq(s, 1, Len(s) - 1))
           x == s[Len(s)]
           keep == {i \in 1..Len(rest) : rest[i].clickCount >= x.clickCount}
       IN InsertAt(rest, Cardinality(keep) + 1, x)

\* variant: the callback assigns instead of adding
RECURSIVE ReduceClicks_Assign(_, _)
ReduceClicks_Assign(s, sum) ==
  IF s = << >> THEN sum
  ELSE ReduceClicks_Assign(Tail(s), Head(s).clickCount)

\* allUrls.reduce((sum, url) => sum + url.clickCount, 0)
RECURSIVE ReduceClicks(_, _)
ReduceClicks(s, sum) ==
  IF s = << >> THEN sum
  ELSE ReduceClicks(Tail(s), sum + Head(s).clickCount)

Slice5(s) == SubSeq(s, 1, IF Len(s) < 5 THEN Len(s) ELSE 5)

TopEntry(r) ==
  [shortCode |-> r.shortCode, originalUrl |-> r.originalUrl,
   clickCount |-> r.clickCount]

\* ---- state --------------------------------------------------------------
VARIABLES
  urls,      \* storage.urls: the records, in property enumeration order
  counter,   \* storage.counter
  disk,      \* content of storageFile
  builtins,  \* inherited built-ins on which a tracked lookup has stored
             \* clickCount (NaN) and lastAccessed
  faulty,    \* whether writes to storageFile can fail in this environment
  deleted,   \* history: codes this registry object removed with deleteUrl
             \* and has not stored again since
  issued,    \* history: the highest n of the ids url_n this process assigned
  depth,     \* generateShortCode frames on the call stack, 0 outside a call
  last       \* the last call: operation, arguments, result, saveStorage use

vars ==
  <<urls, counter, disk, builtins, faulty, deleted, issued, depth, last>>

Ret(kind, val) == [kind |-> kind, val |-> val]

Call(op, url, code, track, ret, saved) ==
  [op |-> op, url |-> url, code |-> code, track |-> track, ret |-> ret,
   saved |-> saved, error |-> FALSE]

\* variant: a failed write leaves the document of an empty registry
saveStorage_EmptyDocument(u, c, d) ==
  IF faulty
  THEN {[disk |-> Serialize(u, c), error |-> FALSE],
        [disk |-> Serialize(<< >>, 0), error |-> TRUE]}
  ELSE {[disk |-> Serialize(u, c), error |-> FALSE]}

\* outcomes of fs.writeFileSync(storageFile, JSON.stringify(storage)) inside
\* the try of saveStorage: written; failed before the file was opened (old
\* content kept); failed after the file was truncated (content unparsable).
\* error: the catch block ran (the failure is logged, nothing is thrown)
saveStorage(u, c, d) ==
  IF faulty
  THEN {[disk |-> Serialize(u, c), error |-> FALSE],
        [disk |-> d, error |-> TRUE],
        [disk |-> BadFile, error |-> TRUE]}
  ELSE {[disk |-> Serialize(u, c), error |-> FALSE]}

Init ==
  /\ urls = << >>
  /\ counter = 0
  /\ disk \in {NoFile, BadFile, UnreadableFile}
  /\ builtins = {}
  /\ faulty = FALSE
  /\ deleted = {}
  /\ issued = 0
  /\ depth = 0
  /\ last = Call("constructor", "", << >>, FALSE, Ret("void", 0), FALSE)

\* ---- operations ---------------------------------------------------------
\* variant: only the most recently enumerated record is compared
FindByUrl_LastOnly(u, originalUrl) ==
  IF u # << >> /\ u[Len(u)].originalUrl = originalUrl
  THEN <<u[Len(u)]>>
  ELSE << >>

\* variant: no lookup of an existing record
FindByUrl_Never(u, originalUrl) == << >>

\* records of Object.values(...).find(url => url.originalUrl === originalUrl)
FindByUrl(u, originalUrl) ==
  SelectSeq(ObjectValues(u), LAMBDA r : r.originalUrl = originalUrl)

\* customCode || this.generateShortCode()
ShortCodeChoice(u, customCode) ==
  IF customCode # << >> /\ customCode[1] # << >>
  THEN {customCode[1]}
  ELSE generateShortCode(u)

\* new URL(url).href of the sampled strings: the serialized, normalized URL
Href(url) ==
  IF url = "https://example.com" THEN "https://example.com/"
  ELSE IF url = "https://www.google.com" THEN "https://www.google.com/"
  ELSE url

\* variant: the normalized URL is stored instead of the string given
NewRecord_Href(originalUrl, shortCode, n, t) ==
  [id |-> <<"url_", n>>, originalUrl |-> Href(originalUrl),
   shortCode |-> shortCode, createdAt |-> t, clickCount |-> 0,
   lastAccessed |-> << >>]

\* variant: the id is numbered by the size of the mapping
NewRecord_IdBySize(originalUrl, shortCode, n, t) ==
  [id |-> <<"url_", Len(urls) + 1>>, originalUrl |-> originalUrl,
   shortCode |-> shortCode, createdAt |-> t, clickCount |-> 0,
   lastAccessed |-> << >>]

NewRecord(originalUrl, shortCode, n, t) ==
  [id |-> <<"url_", n>>, originalUrl |-> originalUrl, shortCode |-> shortCode,
   createdAt |-> t, clickCount |-> 0, lastAccessed |-> << >>]

\* variant: the duplicate-code check is missing
CodeTaken_Never(u, shortCode) == FALSE

\* if (this.storage.urls[shortCode])
CodeTaken(u, shortCode) == Truthy(Lookup(u, shortCode))

\* The Error thrown at line 39 is recorded as "InvalidUrl", the one thrown at
\* line 55 as "CodeAlreadyExists".
shortenUrl(originalUrl, customCode) ==
  IF ~isValidUrl(originalUrl)
  THEN /\ last' = Call("shortenUrl", originalUrl, customCode, FALSE,
                       Ret("throw", "InvalidUrl"), FALSE)
       /\ UNCHANGED <<urls, counter, disk, builtins, faulty, depth,
                      deleted, issued>>
  ELSE IF FindByUrl(urls, originalUrl) # << >>
  THEN /\ last' = Call("shortenUrl", originalUrl, customCode, FALSE,
                       Ret("record", FindByUrl(urls, originalUrl)[1]), FALSE)
       /\ UNCHANGED <<urls, counter, disk, builtins, faulty, depth,
                      deleted, issued>>
  ELSE \E shortCode \in ShortCodeChoice(urls, customCode) :
         IF CodeTaken(urls, shortCode)
         THEN /\ last' = Call("shortenUrl", originalUrl, customCode, FALSE,
                              Ret("throw", "CodeAlreadyExists"), FALSE)
              /\ UNCHANGED <<urls, counter, disk, builtins, faulty, depth,
                             deleted, issued>>
         ELSE /\ counter < MaxCounter
              /\ \E now \in Times :
                 LET rec == NewRecord(originalUrl, shortCode, counter + 1, now)
                 IN /\ counter' = counter + 1
                    /\ urls' = SetKey(urls, rec)
                    /\ \E w \in saveStorage(SetKey(urls, rec), counter + 1,
                                            disk) :
                         /\ disk' = w.disk
                         /\ last' = [Call("shortenUrl", originalUrl,
                                          customCode, FALSE,
                                          Ret("record", rec), TRUE)
                                       EXCEPT !.error = w.error]
                    /\ deleted' = deleted \ {shortCode}
                    /\ issued' = IF rec.id[2] > issued THEN rec.id[2]
                                 ELSE issued
              /\ UNCHANGED <<builtins, faulty, depth>>

\* variant: the click is counted twice
Clicked_Twice(rec, now) ==
  [rec EXCEPT !.clickCount = @ + 2, !.lastAccessed = <<now>>]

\* urlData.clickCount++; urlData.lastAccessed = new Date()
Clicked(rec, now) ==
  [rec EXCEPT !.clickCount = @ + 1, !.lastAccessed = <<now>>]

\* variant: the trackClick argument is ignored
ShouldTrack_Always(trackClick) == TRUE

\* if (trackClick)
ShouldTrack(trackClick) == trackClick

\* what expandUrl returns: null, or urlData.originalUrl, which reads
\* undefined on an inherited built-in
expandUrlReturn(urlData) ==
  IF ~Truthy(urlData) THEN Ret("null", 0)
  ELSE IF urlData.kind = "record" THEN Ret("string", urlData.rec.originalUrl)
  ELSE Ret("undefined", 0)

expandUrl(shortCode, trackClick) ==
  LET urlData == Lookup(urls, shortCode)
  IN IF ~Truthy(urlData) \/ ~ShouldTrack(trackClick)
     THEN /\ last' = Call("expandUrl", "", <<shortCode>>, trackClick,
                          expandUrlReturn(urlData), FALSE)
          /\ UNCHANGED <<urls, counter, disk, builtins, faulty, depth,
                         deleted, issued>>
     ELSE IF urlData.kind = "record"
     THEN /\ urlData.rec.clickCount < MaxClicks
          /\ \E now \in Times :
               /\ urls' = SetKey(urls, Clicked(urlData.rec, now))
               /\ \E w \in saveStorage(SetKey(urls, Clicked(urlData.rec, now)),
                                       counter, disk) :
                    /\ disk' = w.disk
                    /\ last' = [Call("expandUrl", "", <<shortCode>>,
                                     trackClick, expandUrlReturn(urlData),
                                     TRUE)
                                  EXCEPT !.error = w.error]
          /\ UNCHANGED <<counter, builtins, faulty, depth, deleted, issued>>
     \* an inherited built-in: clickCount++ stores NaN on it and lastAccessed
     \* is stored on it
     ELSE /\ builtins' = builtins \cup {shortCode}
          /\ \E w \in saveStorage(urls, counter, disk) :
               /\ disk' = w.disk
               /\ last' = [Call("expandUrl", "", <<shortCode>>, trackClick,
                                expandUrlReturn(urlData), TRUE)
                             EXCEPT !.error = w.error]
          /\ UNCHANGED <<urls, counter, faulty, depth, deleted, issued>>

deleteUrl(shortCode) ==
  IF Truthy(Lookup(urls, shortCode))
  THEN /\ urls' = DeleteKey(urls, shortCode)
       /\ \E w \in saveStorage(DeleteKey(urls, shortCode), counter, disk) :
            /\ disk' = w.disk
            /\ last' = [Call("deleteUrl", "", <<shortCode>>, FALSE,
                             Ret("boolean", TRUE), TRUE)
                          EXCEPT !.error = w.error]
       /\ deleted' = deleted \cup (Keys(urls) \cap {shortCode})
       /\ UNCHANGED <<counter, builtins, faulty, depth, issued>>
  ELSE /\ last' = Call("deleteUrl", "", <<shortCode>>, FALSE,
                       Ret("boolean", FALSE), FALSE)
       /\ UNCHANGED <<urls, counter, disk, builtins, faulty, depth,
                      deleted, issued>>

\* urlData.lastAccessed of a record: the own field, else the Date a tracked
\* lookup of "__proto__" has stored on Object.prototype
ReadLastAccessed(r) ==
  [own |-> r.lastAccessed,
   inherited |-> r.lastAccessed = << >> /\ cProto \in builtins]

AggregateStats(u) ==
  LET allUrls == ObjectValues(u)
      sorted == SortByClicks(allUrls)
  IN [totalUrls |-> Len(allUrls),
      totalClicks |-> ReduceClicks(allUrls, 0),
      topUrls |-> [i \in 1..Len(Slice5(sorted)) |->
                     TopEntry(Slice5(sorted)[i])]]

CodeStats(u, shortCode) ==
  LET urlData == Lookup(u, shortCode)
  IN IF urlData.kind = "record"
     THEN Ret("summary",
              [originalUrl |-> urlData.rec.originalUrl,
               shortCode |-> urlData.rec.shortCode,
               clickCount |-> urlData.rec.clickCount,
               createdAt |-> urlData.rec.createdAt,
               lastAccessed |-> ReadLastAccessed(urlData.rec)])
     ELSE IF urlData.kind = "builtin"
     THEN Ret("summaryOfBuiltin", shortCode \in builtins)
     ELSE Ret("null", 0)

\* if (shortCode) is false for an absent argument and for the empty string
getStats(shortCode) ==
  /\ last' = Call("getStats", "", shortCode, FALSE,
                  IF shortCode # << >> /\ shortCode[1] # << >>
                  THEN CodeStats(urls, shortCode[1])
                  ELSE Ret("aggregate", AggregateStats(urls)),
                  FALSE)
  /\ UNCHANGED <<urls, counter, disk, builtins, faulty, depth,
                 deleted, issued>>

listUrls ==
  /\ last' = Call("listUrls", "", << >>, FALSE,
                  Ret("array", ObjectValues(urls)), FALSE)
  /\ UNCHANGED <<urls, counter, disk, builtins, faulty, depth,
                 deleted, issued>>

\* new UrlShortener() in a fresh process on the same storageFile
Construct ==
  /\ urls' = loadStorage(disk).urls
  /\ counter' = loadStorage(disk).counter
  /\ builtins' = {}
  /\ last' = Call("constructor", "", << >>, FALSE, Ret("void", 0), FALSE)
  /\ deleted' = {}
  /\ issued' = 0
  /\ UNCHANGED <<disk, faulty, depth>>

\* handleCommandLineArgs, case "expand": a fresh process constructs the
\* registry and calls expandUrl(args[1], false)
handleExpand(shortCode) ==
  LET loaded == loadStorage(disk)
      urlData == Lookup(loaded.urls, shortCode)
  IN /\ urls' = loaded.urls
     /\ counter' = loaded.counter
     /\ builtins' = {}
     /\ last' = Call("expand", "", <<shortCode>>, FALSE,
                     expandUrlReturn(urlData), FALSE)
     /\ deleted' = {}
     /\ issued' = 0
     /\ UNCHANGED <<disk, faulty, depth>>

Next ==
  \/ \E originalUrl \in UrlInputs, customCode \in CustomCodeArgs :
       shortenUrl(originalUrl, customCode)
  \/ \E shortCode \in CodeInputs, trackClick \in BOOLEAN :
       expandUrl(shortCode, trackClick)
  \/ \E shortCode \in CustomCodeArgs : getStats(shortCode)
  \/ listUrls
  \/ \E shortCode \in CodeInputs : deleteUrl(shortCode)
  \/ Construct
  \/ \E shortCode \in CodeInputs : handleExpand(shortCode)

Spec == Init /\ [][Next]_vars

\* ---- shortenUrl without a custom code, one generateShortCode call a step --
\* lines 36-51: the checks of shortenUrl up to the call of generateShortCode
GenCall(originalUrl) ==
  /\ depth = 0
  /\ IF ~isValidUrl(originalUrl)
     THEN /\ last' = Call("shortenUrl", originalUrl, << >>, FALSE,
                          Ret("throw", "InvalidUrl"), FALSE)
          /\ UNCHANGED depth
     ELSE IF FindByUrl(urls, originalUrl) # << >>
     THEN /\ last' = Call("shortenUrl", originalUrl, << >>, FALSE,
                          Ret("record", FindByUrl(urls, originalUrl)[1]),
                          FALSE)
          /\ UNCHANGED depth
     ELSE /\ counter < MaxCounter
          /\ last' = Call("shortenUrl", originalUrl, << >>, FALSE,
                          Ret("pending", 0), FALSE)
          /\ depth' = 1
  /\ UNCHANGED <<urls, counter, disk, builtins, faulty, deleted, issued>>

\* lines 179-194, one call: the for loop builds DrawnCode(draw); a string
\* found in storage.urls makes the call recurse (line 190), any other is
\* returned through all frames to line 51 and shortenUrl goes on (54-69)
GenDraw(draw) ==
  /\ depth >= 1
  /\ IF Truthy(Lookup(urls, DrawnCode(draw)))
     THEN /\ depth < MaxDepth
          /\ depth' = depth + 1
          /\ UNCHANGED <<urls, counter, disk, builtins, faulty, deleted,
                         issued, last>>
     ELSE /\ depth' = 0
          /\ IF CodeTaken(urls, DrawnCode(draw))
             THEN /\ last' = [last EXCEPT
                                !.ret = Ret("throw", "CodeAlreadyExists")]
                  /\ UNCHANGED <<urls, counter, disk, builtins, faulty,
                                 deleted, issued>>
             ELSE \E now \in Times :
                    LET rec == NewRecord(last.url, DrawnCode(draw),
                                         counter + 1, now)
                    IN /\ counter' = counter + 1
                       /\ urls' = SetKey(urls, rec)
                       /\ \E w \in saveStorage(SetKey(urls, rec),
                                               counter + 1, disk) :
                            /\ disk' = w.disk
                            /\ last' = [last EXCEPT
                                          !.ret = Ret("record", rec),
                                          !.saved = TRUE,
                                          !.error = w.error]
                       /\ deleted' = deleted \ {rec.shortCode}
                       /\ issued' = IF rec.id[2] > issued THEN rec.id[2]
                                    ELSE issued
                       /\ UNCHANGED <<builtins, faulty>>

NextGen ==
  \/ \E originalUrl \in UrlInputs : GenCall(originalUrl)
  \/ \E draw \in DrawSamples : GenDraw(draw)
  \/ \E shortCode \in CodeInputs : depth = 0 /\ deleteUrl(shortCode)

SpecGen == Init /\ [][NextGen]_vars

\* ---- statistics of registries of up to MaxRecords records ----------------
\* the URLs shortened, in the order of their creation
TopUrls ==
  <<"https://example.com/1", "https://example.com/2",
    "https://example.com/3", "https://example.com/4",
    "https://example.com/5", "https://example.com/6",
    "https://example.com/7", "https://example.com/8">>

\* the code generated for the i-th of them
TopCode(i) == <<"a", "a", "a", "a", "a", chars[i]>>

\* click counts of the records
TopClicks == {0, 1, 2}

\* the i-th record created (lines 58-64), after k tracked lookups (82-83)
TopRecord(i, k) ==
  [id |-> <<"url_", i>>, originalUrl |-> TopUrls[i], shortCode |-> TopCode(i),
   createdAt |-> 0, clickCount |-> k,
   lastAccessed |-> IF k = 0 THEN << >> ELSE <<1>>]

\* a registry constructed on the file earlier processes have written
InitTop ==
  /\ \E n \in 0..MaxRecords :
       \E clicks \in [1..n -> TopClicks] :
         urls = [i \in 1..n |-> TopRecord(i, clicks[i])]
  /\ counter = Len(urls)
  /\ disk = Serialize(urls, counter)
  /\ builtins = {}
  /\ faulty = FALSE
  /\ deleted = {}
  /\ issued = 0
  /\ depth = 0
  /\ last = Call("constructor", "", << >>, FALSE, Ret("void", 0), FALSE)

NextTop ==
  \/ \E shortCode \in {<< >>, <<cEmpty>>, <<TopCode(1)>>} : getStats(shortCode)
  \/ listUrls

SpecTop == InitTop /\ [][NextTop]_vars

\* the same program on a storage location whose writes can fail, starting
\* with no file or with an unparsable one
InitFaulty ==
  /\ urls = << >>
  /\ counter = 0
  /\ disk \in {NoFile, BadFile, UnreadableFile}
  /\ builtins = {}
  /\ faulty = TRUE
  /\ deleted = {}
  /\ issued = 0
  /\ depth = 0
  /\ last = Call("constructor", "", << >>, FALSE, Ret("void", 0), FALSE)

\* the mutating operations on stored and unstored codes, and restarts
NextFaulty ==
  \/ \E originalUrl \in ValidUrls, customCode \in {<< >>, <<cAaaaaa>>} :
       shortenUrl(originalUrl, customCode)
  \/ \E shortCode \in {cAaaaaa, c123456} : expandUrl(shortCode, TRUE)
  \/ \E shortCode \in {cAaaaaa, c123456} : deleteUrl(shortCode)
  \/ Construct

SpecFaulty == InitFaulty /\ [][NextFaulty]_vars

\* ---- properties ----------------------------------------------------------
StoredRecords == {urls[i] : i \in DOMAIN urls}
StoredCodes == {r.shortCode : r \in StoredRecords}
StoredUrls == {r.originalUrl : r \in StoredRecords}

\* a step that leaves the registry, the file and the built-ins alone and
\* does not call saveStorage
NothingChanged ==
  /\ urls' = urls
  /\ counter' = counter
  /\ disk' = disk
  /\ builtins' = builtins
  /\ ~last'.saved

\* C1: after shortenUrl(u) without a custom code, for a valid URL u, a record
\* was returned and expandUrl of its shortCode returns exactly u.
C1_CreateThenResolve ==
  (last.op = "shortenUrl" /\ last.code = << >> /\ last.url \in ValidUrls) =>
    /\ last.ret.kind = "record"
    /\ expandUrlReturn(Lookup(urls, last.ret.val.shortCode))
         = Ret("string", last.url)

C1_Witness ==
  /\ last.op = "shortenUrl"
  /\ last.code = << >>
  /\ last.url \in ValidUrls
  /\ last.saved
  /\ Len(urls) = 2

\* C2: shortenUrl(u, c) for a stored URL u and any custom code argument
\* returns the stored record of u, and changes and writes nothing.
C2_CreateIdempotentByUrl ==
  [][(last'.op = "shortenUrl" /\ last'.url \in StoredUrls) =>
       /\ last'.ret.kind = "record"
       /\ last'.ret.val \in StoredRecords
       /\ last'.ret.val.originalUrl = last'.url
       /\ NothingChanged]_vars

C2_Witness ==
  /\ last.op = "shortenUrl"
  /\ last.ret.kind = "record"
  /\ ~last.saved
  /\ last.code # << >>
  /\ last.code[1] \in StoredCodes
  /\ last.code[1] # last.ret.val.shortCode

\* C3: no two stored records have the same originalUrl.
C3_UrlStoredOnce ==
  \A i, j \in DOMAIN urls :
    urls[i].originalUrl = urls[j].originalUrl => i = j

C3_Witness ==
  /\ Len(urls) = 2
  /\ last.op = "shortenUrl"
  /\ last.ret.kind = "record"
  /\ ~last.saved

\* C4: shortenUrl(v, c) for a valid URL v that is not stored and a custom
\* code c that is the short code of a stored record throws CodeAlreadyExists
\* and changes and writes nothing.
C4_CustomCodeCollision ==
  [][(/\ last'.op = "shortenUrl"
      /\ last'.url \in ValidUrls \ StoredUrls
      /\ last'.code # << >>
      /\ last'.code[1] \in StoredCodes) =>
       /\ last'.ret = Ret("throw", "CodeAlreadyExists")
       /\ NothingChanged]_vars

C4_Witness ==
  /\ last.op = "shortenUrl"
  /\ last.ret = Ret("throw", "CodeAlreadyExists")
  /\ last.code[1] \in StoredCodes
  /\ last.url \notin StoredUrls

\* C5: shortenUrl of a string that is not a valid URL throws InvalidUrl,
\* whatever the custom code argument, and changes and writes nothing.
C5_InvalidUrlRejected ==
  [][(last'.op = "shortenUrl" /\ last'.url \notin ValidUrls) =>
       /\ last'.ret = Ret("throw", "InvalidUrl")
       /\ NothingChanged]_vars

C5_Witness ==
  /\ last.op = "shortenUrl"
  /\ last.ret = Ret("throw", "InvalidUrl")
  /\ last.code # << >>
  /\ last.code[1] \in StoredCodes

\* C6: expandUrl(c, true) on a stored code c returns the record's
\* originalUrl, adds exactly 1 to its clickCount, sets its lastAccessed and
\* rewrites the file with the new state; the record's other fields, the
\* other records, their order and the counter stay as they were.
C6_TrackedResolve ==
  [][(/\ last'.op = "expandUrl"
      /\ last'.track
      /\ last'.code[1] \in StoredCodes) =>
       \E i \in DOMAIN urls :
         /\ urls[i].shortCode = last'.code[1]
         /\ last'.ret.kind = "string"
         /\ last'.ret.val = urls[i].originalUrl
         /\ DOMAIN urls' = DOMAIN urls
         /\ urls'[i].clickCount = urls[i].clickCount + 1
         /\ urls'[i].lastAccessed # << >>
         /\ urls'[i].id = urls[i].id
         /\ urls'[i].originalUrl = urls[i].originalUrl
         /\ urls'[i].shortCode = urls[i].shortCode
         /\ urls'[i].createdAt = urls[i].createdAt
         /\ \A j \in DOMAIN urls : j # i => urls'[j] = urls[j]
         /\ counter' = counter
         /\ builtins' = builtins
         /\ last'.saved
         /\ disk' = Serialize(urls', counter')]_vars

C6_Witness ==
  /\ last.op = "expandUrl"
  /\ last.track
  /\ last.saved
  /\ last.ret.kind = "string"
  /\ Len(urls) = 2
  /\ \E r \in StoredRecords : r.shortCode = last.code[1] /\ r.clickCount = 1

\* C7: expandUrl(c, false) changes and writes nothing, for a stored code, an
\* absent one and an inherited name alike; the expand command leaves the file
\* as it is, writes nothing and works on the records and counter the file
\* holds.
C7_UntrackedResolveIsPure ==
  [][/\ (last'.op = "expandUrl" /\ ~last'.track) => NothingChanged
     /\ last'.op = "expand" =>
          /\ disk' = disk
          /\ ~last'.saved
          /\ urls' = urls
          /\ counter' = counter]_vars

C7_Witness ==
  /\ last.op = "expandUrl"
  /\ ~last.track
  /\ last.ret.kind = "string"
  /\ \E r \in StoredRecords : r.shortCode = last.code[1] /\ r.clickCount = 1

\* C8: deleteUrl(c) on a stored code c returns true, removes exactly that
\* record, keeps the others, their order and the counter, and rewrites the
\* file; while c has not been stored again by shortenUrl, expandUrl(c)
\* returns null.
C8_Delete ==
  [][/\ (last'.op = "deleteUrl" /\ last'.code[1] \in StoredCodes) =>
          /\ last'.ret.kind = "boolean"
          /\ last'.ret.val = TRUE
          /\ urls' = SelectSeq(urls, LAMBDA r : r.shortCode # last'.code[1])
          /\ Len(urls') = Len(urls) - 1
          /\ counter' = counter
          /\ last'.saved
          /\ disk' = Serialize(urls', counter')
          /\ last'.code[1] \in deleted'
     /\ (last'.op = "expandUrl" /\ last'.code[1] \in deleted') =>
          last'.ret.kind = "null"
     /\ \A c \in deleted : c \notin deleted' =>
          \/ last'.op = "shortenUrl" /\ last'.saved /\ c \in StoredCodes'
          \/ last'.op \in {"constructor", "expand"}]_vars

C8_Witness ==
  /\ last.op = "expandUrl"
  /\ last.code[1] \in deleted
  /\ last.ret.kind = "null"
  /\ Len(urls) = 1

\* C9 (as claimed): for every string c that is not the short code of a stored
\* record, expandUrl(c) and getStats(c) return not-found (null or undefined),
\* deleteUrl(c) returns false, and none of them changes or writes anything.
C9_AbsentCodeIsNotFound ==
  [][/\ (last'.op = "expandUrl" /\ last'.code[1] \notin StoredCodes) =>
          /\ last'.ret.kind \in {"null", "undefined"}
          /\ NothingChanged
     /\ (/\ last'.op = "getStats"
         /\ last'.code # << >>
         /\ last'.code[1] \notin StoredCodes) =>
          /\ last'.ret.kind \in {"null", "undefined"}
          /\ NothingChanged
     /\ (last'.op = "deleteUrl" /\ last'.code[1] \notin StoredCodes) =>
          /\ last'.ret.kind = "boolean"
          /\ last'.ret.val = FALSE
          /\ NothingChanged]_vars

RECURSIVE SumOfClicks(_)
SumOfClicks(records) ==
  IF records = {} THEN 0
  ELSE LET r == CHOOSE x \in records : TRUE
       IN r.clickCount + SumOfClicks(records \ {r})

\* C10: the aggregate getStats() reports totalUrls equal to the number of
\* stored records and totalClicks equal to the sum of clickCount over the
\* records stored at that moment.
C10_AggregateTotals ==
  (last.op = "getStats" /\ last.ret.kind = "aggregate") =>
    /\ last.ret.val.totalUrls = Cardinality(StoredCodes)
    /\ last.ret.val.totalClicks = SumOfClicks(StoredRecords)

C10_Witness ==
  /\ last.op = "getStats"
  /\ last.ret.kind = "aggregate"
  /\ last.ret.val.totalClicks = 1
  /\ last.ret.val.totalUrls = 1
  /\ deleted # {}
  /\ counter = 2

\* C11: where every write succeeds, the file holds the serialized in-memory
\* records and counter (or there is no parsable file and the registry is
\* empty), so loading it gives the same records, in the same order, with the
\* same ids, click counts and timestamps, and the same counter.
C11_PersistReload ==
  /\ disk.state = "ok" => disk = Serialize(urls, counter)
  /\ disk.state # "ok" => urls = << >> /\ counter = 0
  /\ loadStorage(disk).urls = urls
  /\ loadStorage(disk).counter = counter

C11_Witness ==
  /\ last.op = "constructor"
  /\ Len(urls) = 2
  /\ counter = 2
  /\ \E r \in StoredRecords : r.lastAccessed # << >> /\ r.clickCount = 1
  /\ \E r \in StoredRecords : r.lastAccessed = << >>

\* a step of the running process, as opposed to the start of a new one
SameProcess == last'.op \notin {"constructor", "expand"}

\* C12: within a process the counter never decreases; a call that adds a
\* record is a shortenUrl that raises the counter by exactly 1 and gives the
\* record the id url_<new counter>, which no stored record has and whose
\* number is above every number this process assigned before (deleted records
\* included); every other call leaves the counter as it is.
C12_CounterAndIds ==
  [][SameProcess =>
       /\ counter' >= counter
       /\ IF Len(urls') > Len(urls)
          THEN /\ last'.op = "shortenUrl"
               /\ last'.ret.kind = "record"
               /\ counter' = counter + 1
               /\ last'.ret.val.id = <<"url_", counter'>>
               /\ last'.ret.val \in StoredRecords'
               /\ last'.ret.val.id[2] > issued
               /\ \A r \in StoredRecords : r.id # last'.ret.val.id
          ELSE counter' = counter]_vars

C12_Witness ==
  /\ last.op = "shortenUrl"
  /\ last.saved
  /\ last.ret.val.id = <<"url_", 2>>
  /\ issued = 2
  /\ deleted # {}
  /\ Len(urls) = 1

LowerCase ==
  {"a", "b", "c", "d", "e", "f", "g", "h", "i", "j", "k", "l", "m",
   "n", "o", "p", "q", "r", "s", "t", "u", "v", "w", "x", "y", "z"}

UpperCase ==
  {"A", "B", "C", "D", "E", "F", "G", "H", "I", "J", "K", "L", "M",
   "N", "O", "P", "Q", "R", "S", "T", "U", "V", "W", "X", "Y", "Z"}

\* a shortenUrl of a valid URL that is not stored, with no custom code to use
\* (absent, or the empty string, which line 51 replaces by a generated code)
GeneratingCall ==
  /\ last'.op = "shortenUrl"
  /\ last'.code \in {<< >>, <<cEmpty>>}
  /\ last'.url \in ValidUrls
  /\ last'.url \notin StoredUrls

\* C13: when shortenUrl generates the code, the call returns a record (it
\* does not throw CodeAlreadyExists) whose code has exactly 6 characters, all
\* from [A-Za-z0-9], and was the key of no stored record before the insertion;
\* the insertion adds one record and keeps every record stored before.
C13_GeneratedCode ==
  [][GeneratingCall =>
       /\ last'.ret.kind = "record"
       /\ Len(last'.ret.val.shortCode) = 6
       /\ \A i \in 1..Len(last'.ret.val.shortCode) :
            last'.ret.val.shortCode[i] \in LowerCase \cup UpperCase \cup Digits
       /\ last'.ret.val.shortCode \notin StoredCodes
       /\ last'.ret.val \in StoredRecords'
       /\ Len(urls') = Len(urls) + 1
       /\ StoredRecords \subseteq StoredRecords']_vars

\* a code was generated while the other sampled draw was a stored key
C13_Witness ==
  /\ last.op = "shortenUrl"
  /\ last.code = << >>
  /\ last.saved
  /\ last.ret.kind = "record"
  /\ last.ret.val.shortCode = c123456
  /\ last.ret.val \in StoredRecords
  /\ \E r \in StoredRecords : r.shortCode = cAaaaaa /\ r.id # last.ret.val.id

\* a shortenUrl of a valid URL that is not stored, with a custom code that is
\* the short code of no stored record
CustomCodeCall ==
  /\ last'.op = "shortenUrl"
  /\ last'.code # << >>
  /\ last'.code[1] \notin StoredCodes
  /\ last'.url \in ValidUrls
  /\ last'.url \notin StoredUrls

\* C14 (as claimed): shortenUrl(u, c) with u valid and not stored and c any
\* string that is the code of no stored record returns a new record with
\* shortCode = c, id = url_<old counter + 1>, clickCount 0 and no
\* lastAccessed, stores exactly that record in addition to the old ones,
\* raises the counter by 1 and writes the file.
C14_CustomCodeVerbatim ==
  [][CustomCodeCall =>
       /\ last'.ret.kind = "record"
       /\ last'.ret.val.shortCode = last'.code[1]
       /\ last'.ret.val.originalUrl = last'.url
       /\ last'.ret.val.id = <<"url_", counter + 1>>
       /\ last'.ret.val.clickCount = 0
       /\ last'.ret.val.lastAccessed = << >>
       /\ counter' = counter + 1
       /\ StoredRecords' = StoredRecords \cup {last'.ret.val}
       /\ Len(urls') = Len(urls) + 1
       /\ last'.saved
       /\ disk' = Serialize(urls', counter')]_vars

\* C15 (as claimed): a shortenUrl without a custom code gives up after a
\* bounded number of attempts: no more than 100 generateShortCode calls are
\* ever made for one create, whatever the draws are.
C15_RetryCap == depth <= 100

\* a mutating call whose saveStorage caught a write error
WriteFailed ==
  /\ last'.op \in {"shortenUrl", "expandUrl", "deleteUrl"}
  /\ last'.saved
  /\ last'.error

\* the call returned its usual result and its change of the registry is in
\* memory after the step
MutationKept ==
  /\ last'.op = "shortenUrl" =>
       /\ last'.ret.kind = "record"
       /\ last'.ret.val.originalUrl = last'.url
       /\ last'.ret.val \in StoredRecords'
       /\ last'.ret.val.shortCode \notin StoredCodes
       /\ Len(urls') = Len(urls) + 1
       /\ counter' = counter + 1
  /\ last'.op = "expandUrl" =>
       /\ last'.ret.kind = "string"
       /\ \E i \in DOMAIN urls :
            /\ urls[i].shortCode = last'.code[1]
            /\ last'.ret.val = urls[i].originalUrl
            /\ urls'[i].clickCount = urls[i].clickCount + 1
            /\ urls'[i].lastAccessed # << >>
       /\ counter' = counter
  /\ last'.op = "deleteUrl" =>
       /\ last'.ret.kind = "boolean"
       /\ last'.ret.val = TRUE
       /\ last'.code[1] \in StoredCodes
       /\ last'.code[1] \notin StoredCodes'
       /\ Len(urls') = Len(urls) - 1
       /\ counter' = counter

\* a mutating call whose write succeeded leaves the file equal to the
\* serialized in-memory state
WriteResyncs ==
  (last'.saved /\ ~last'.error) => disk' = Serialize(urls', counter')

\* C16 (as claimed): when the write of a shortenUrl, a tracked expandUrl or a
\* deleteUrl fails, the call returns its usual result without throwing, the
\* change stays in memory, and the file keeps its previous content; a later
\* mutating call whose write succeeds makes the file equal to the memory.
C16_WriteFailureKeepsFile ==
  [][/\ WriteFailed => (MutationKept /\ disk' = disk)
     /\ WriteResyncs]_vars

\* C16 (amended): as above, except that the file after a failed write either
\* keeps its previous content or is left without a parsable document (the
\* write failed after the file was truncated).
C16_WriteFailure ==
  [][/\ WriteFailed => (MutationKept /\ (disk' = disk \/ disk'.state # "ok"))
     /\ WriteResyncs]_vars

\* a delete whose write failed: the record is gone from memory, the file
\* still holds the document written before
C16_Witness ==
  /\ faulty
  /\ last.op = "deleteUrl"
  /\ last.saved
  /\ last.error
  /\ last.ret.val = TRUE
  /\ disk.state = "ok"
  /\ disk # Serialize(urls, counter)
  /\ loadStorage(disk).counter = counter
  /\ Len(loadStorage(disk).urls) = Len(urls) + 1

\* C17: a constructor call on a storage file that is missing, unreadable or
\* unparsable returns normally with an empty mapping and counter 0, whatever
\* the registry held in memory before the restart; the first shortenUrl after
\* it that returns a record returns a new one with id url_1.
C17_ConstructFallback ==
  [][/\ (last'.op = "constructor" /\ disk.state # "ok") =>
          /\ last'.ret = Ret("void", 0)
          /\ urls' = << >>
          /\ counter' = 0
     /\ (/\ last.op = "constructor"
         /\ disk.state # "ok"
         /\ last'.op = "shortenUrl"
         /\ last'.url \in ValidUrls
         /\ last'.ret.kind # "throw") =>
          /\ last'.ret.kind = "record"
          /\ last'.ret.val.id = <<"url_", 1>>
          /\ last'.ret.val.originalUrl = last'.url
          /\ urls' = <<last'.ret.val>>
          /\ counter' = 1]_vars

\* the first shortenUrl of a registry constructed on an unreadable file (the
\* file is still as it was: the write of this call failed)
C17_Witness ==
  /\ last.op = "shortenUrl"
  /\ last.saved
  /\ last.error
  /\ disk = UnreadableFile
  /\ last.ret.val.id = <<"url_", 1>>
  /\ urls = <<last.ret.val>>
  /\ counter = 1

\* the entries of topUrls are entries of distinct stored records
TopAreStored(top) ==
  /\ \A i \in DOMAIN top :
       \E r \in StoredRecords :
         /\ r.shortCode = top[i].shortCode
         /\ r.originalUrl = top[i].originalUrl
         /\ r.clickCount = top[i].clickCount
  /\ \A i, j \in DOMAIN top : top[i].shortCode = top[j].shortCode => i = j

\* C18: the aggregate getStats() returns topUrls with min(5, number of
\* records) entries of distinct stored records, in descending order of
\* clickCount, and no record left out has more clicks than one included; the
\* call changes neither the registry nor the file, and listUrls afterwards
\* (as before) returns the records in their order of creation.
C18_TopUrls ==
  [][/\ (last'.op = "getStats" /\ last'.ret.kind = "aggregate") =>
          LET top == last'.ret.val.topUrls
          IN /\ Len(top) = IF Len(urls) < 5 THEN Len(urls) ELSE 5
             /\ TopAreStored(top)
             /\ \A i, j \in DOMAIN top :
                  i < j => top[i].clickCount >= top[j].clickCount
             /\ \A r \in StoredRecords :
                  (\A i \in DOMAIN top : top[i].shortCode # r.shortCode) =>
                    \A i \in DOMAIN top : r.clickCount <= top[i].clickCount
             /\ urls' = urls
             /\ counter' = counter
             /\ disk' = disk
     /\ last'.op = "listUrls" =>
          /\ Len(last'.ret.val) = Len(urls)
          /\ \A i \in DOMAIN last'.ret.val :
               /\ last'.ret.val[i].id = <<"url_", i>>
               /\ last'.ret.val[i] \in StoredRecords]_vars

\* the aggregate of six records of which the last two created have the most
\* clicks: five entries, the sixth record left out
C18_Witness ==
  /\ last.op = "getStats"
  /\ last.ret.kind = "aggregate"
  /\ Len(urls) = 6
  /\ urls[5].clickCount = 2
  /\ urls[6].clickCount = 1
  /\ \A i \in 1..4 : urls[i].clickCount = 0
  /\ Len(last.ret.val.topUrls) = 5
  /\ last.ret.val.topUrls[1].shortCode = urls[5].shortCode
  /\ last.ret.val.topUrls[2].shortCode = urls[6].shortCode

\* C19 (as claimed): listUrls returns every stored record exactly once, in
\* the order of creation (ascending id number) whatever the short codes are;
\* deleteUrl of a stored code removes that record and keeps the order of the
\* others.
C19_ListInsertionOrder ==
  [][/\ last'.op = "listUrls" =>
          /\ last'.ret.kind = "array"
          /\ Len(last'.ret.val) = Cardinality(StoredRecords)
          /\ \A r \in StoredRecords :
               \E i \in DOMAIN last'.ret.val : last'.ret.val[i] = r
          /\ \A i, j \in DOMAIN last'.ret.val :
               i < j => last'.ret.val[i].id[2] < last'.ret.val[j].id[2]
     /\ (last'.op = "deleteUrl" /\ last'.code[1] \in StoredCodes) =>
          /\ Len(urls') = Len(urls) - 1
          /\ \A i, j \in DOMAIN urls :
               (/\ i < j
                /\ urls[i].shortCode # last'.code[1]
                /\ urls[j].shortCode # last'.code[1]) =>
                 \E k, l \in DOMAIN urls' :
                   k < l /\ urls'[k] = urls[i] /\ urls'[l] = urls[j]]_vars

\* record.lastAccessed reads as a Date
LastAccessedSet(r) ==
  ReadLastAccessed(r).own # << >> \/ ReadLastAccessed(r).inherited

\* C20 (as claimed): in every reachable state each record is found under its
\* own shortCode, the ids of the stored records are pairwise distinct, each
\* id is url_<n> with 1 <= n <= counter (so there are at most counter
\* records), every clickCount is >= 0, and lastAccessed of a record is set
\* exactly when its clickCount is >= 1.
C20_RecordInvariants ==
  /\ \A i \in DOMAIN urls :
       /\ Lookup(urls, urls[i].shortCode).kind = "record"
       /\ Lookup(urls, urls[i].shortCode).rec = urls[i]
       /\ urls[i].id[1] = "url_"
       /\ urls[i].id[2] >= 1
       /\ urls[i].id[2] <= counter
       /\ urls[i].clickCount >= 0
       /\ LastAccessedSet(urls[i]) <=> urls[i].clickCount >= 1
  /\ \A i, j \in DOMAIN urls : urls[i].id = urls[j].id => i = j
  /\ Len(urls) <= counter

====
